---- MODULE Spec2Model ----
(***************************************************************************)
(* Model of the HighToLow training agent (src/HighToLow.py): construction, *)
(* checkpoint load, the epoch loop, the per-batch generator/discriminator  *)
(* update, the checkpoint save and the top-level run().  One process runs  *)
(* at a time; a later process (a resumed run) sees the files the earlier   *)
(* one left on storage.                                                    *)
(***************************************************************************)
EXTENDS Integers, Sequences, FiniteSets, TLC

\* ---- bounds of the model ------------------------------------------------
\* config.max_epoch
max_epoch == 3
\* len(test_loader): batches the loader yields per epoch
NumBatches == 2
\* largest batch dimension N the loader yields
MaxBatchSize == 2
\* random.randint(1, 10000) restricted to 1..MaxSeed
MaxSeed == 2
\* number of processes (first run and resumed runs)
MaxRuns == 2

\* ---- program constants --------------------------------------------------
real_label == 1
fake_label == -1

\* ---- state ---------------------------------------------------------------
VARIABLES
  pc,                \* position of the running process
  run,               \* ordinal of the running process (1 = first run)
  is_cuda,           \* torch.cuda.is_available()
  config_cuda,       \* config.cuda
  device,            \* self.device
  data_device,       \* device of the tensors of the current batch
  current_epoch, current_iteration,
  manual_seed,       \* self.manual_seed
  rng_seed,          \* seed the random generators were seeded with
  netG, optimG, netD, optimD,
  ckpt,              \* the artifact config.checkpoint_dir + "checkpoint.pth.tar"
  state,             \* local `state` of save_checkpoint
  epochs_left,       \* iterator of range(current_epoch, max_epoch)
  next_it, curr_it,  \* enumerate(test_loader)
  batchsize,
  loader,            \* test_loader of train_one_epoch
  summary_writer,    \* [open, exported]
  scalars,           \* add_scalar calls of this process, in order
  images,            \* image artifacts on storage
  log_lines,         \* progress lines logged by this process
  best,              \* the artifact 'High_to_Low_model_best.pth.tar'
  is_best,           \* parameter is_best of the running save_checkpoint call
  gen_lr, pred_real, pred_fake,  \* tensors of train_one_epoch
  gradG, gradD,      \* .grad of the generator's / discriminator's parameters
  prior,             \* scalars earlier processes wrote to the event trace
  \* history variables (observations, not program state)
  load_file,         \* condition of the checkpoint file when load_checkpoint read it
  load_outcome,      \* what load_checkpoint did
  start_epoch,       \* current_epoch when train() was entered
  epochs_run,        \* epochs whose train_one_epoch was entered, in order
  gSteps, dSteps, iterIncs,   \* optimizer steps / counter increments of this process
  netG_calls, netD_calls,     \* forward calls in the current batch
  epoch_saves,       \* save_checkpoint calls completed since the epoch began
  epoch_images,      \* image names written since the epoch began
  intr_pc,           \* position at which the interrupt arrived
  events,            \* steps of the current batch taken so far, in order
  best_before,       \* the best artifact when the running save_checkpoint began
  last_saved         \* live training state when the last completed save was taken

vars == <<pc, run, is_cuda, config_cuda, device, data_device, current_epoch,
          current_iteration, manual_seed, rng_seed, netG, optimG, netD, optimD,
          ckpt, state, epochs_left, next_it, curr_it, batchsize, loader,
          summary_writer, scalars, images, log_lines, load_file, load_outcome,
          start_epoch, epochs_run, gSteps, dSteps, iterIncs, netG_calls,
          netD_calls, epoch_saves, epoch_images, intr_pc, last_saved,
          best, is_best, gen_lr, pred_real, pred_fake, gradG, gradD, prior,
          events, best_before>>

\* ---- groups of variables, for the frame conditions ----------------------------
processVars == <<run, is_cuda, config_cuda, device, manual_seed, rng_seed,
                 load_file, load_outcome, intr_pc, prior>>
netVars == <<netG, optimG, netD, optimD>>
counterVars == <<current_epoch, current_iteration>>
storeVars == <<ckpt, state, last_saved, epoch_saves, best, is_best,
               best_before>>
loopVars == <<epochs_left, next_it, curr_it, batchsize, loader, start_epoch,
              epochs_run>>
outVars == <<summary_writer, scalars, images, log_lines, epoch_images>>
stepVars == <<gSteps, dSteps, iterIncs>>
callVars == <<netG_calls, netD_calls>>
tensorVars == <<gen_lr, pred_real, pred_fake>>
gradVars == <<gradG, gradD>>

\* ---- values ----------------------------------------------------------------
\* A network or optimizer state: which construction produced it and how many
\* optimizer steps it has received since.
Fresh(kind, r) == [kind |-> kind, init |-> r, steps |-> 0]

Stepped(s) == [s EXCEPT !.steps = @ + 1]

NoState == [kind |-> "none", init |-> 0, steps |-> 0]

\* the dictionary with the iteration entry filled from the epoch counter
CheckpointState_EpochAsIteration(epoch, iteration, G, oG, D, oD, seed) ==
  [epoch |-> epoch, iteration |-> epoch,
   G_state_dict |-> G, G_optimizer |-> oG,
   D_state_dict |-> D, D_optimizer |-> oD,
   manual_seed |-> seed]

\* the dictionary save_checkpoint builds
CheckpointState(epoch, iteration, G, oG, D, oD, seed) ==
  [epoch |-> epoch, iteration |-> iteration,
   G_state_dict |-> G, G_optimizer |-> oG,
   D_state_dict |-> D, D_optimizer |-> oD,
   manual_seed |-> seed]

NoCheckpoint == CheckpointState(-1, -1, NoState, NoState, NoState, NoState, 0)

\* what torch.load meets at the checkpoint path
FileCondition(f) ==
  IF f.status = "absent" THEN "absent"
  ELSE IF ~f.perm THEN "denied"
  ELSE f.status

\* a handler that does not cover the missing file
LoadOutcome_MissingFatal(cond) ==
  CASE cond = "complete" -> "ok"
    [] cond = "absent"   -> "fatal"
    [] cond = "denied"   -> "skip"
    [] cond = "partial"  -> "fatal"

\* the try/except of load_checkpoint: FileNotFoundError and PermissionError
\* are OSError and are swallowed; a truncated pickle raises outside OSError
LoadOutcome(cond) ==
  CASE cond = "complete" -> "ok"
    [] cond = "absent"   -> "skip"
    [] cond = "denied"   -> "skip"
    [] cond = "partial"  -> "fatal"

\* a loop that resumes after the stored epoch
EpochRange_SkipStored(cur, max) ==
  IF cur + 1 < max THEN [i \in 1..(max - cur - 1) |-> cur + i] ELSE <<>>

\* range(self.current_epoch, self.config.max_epoch)
EpochRange(cur, max) ==
  IF cur < max THEN [i \in 1..(max - cur) |-> cur + i - 1] ELSE <<>>

\* a name built from the 1-based batch number of the log line
ImageName_OneBased(it, epoch) == [batch |-> it + 1, epoch |-> epoch]

\* 'batch' + str(curr_it) + '_epoch' + str(self.current_epoch) + '.jpg'
ImageName(it, epoch) == [batch |-> it, epoch |-> epoch]

\* A tensor: the network states its value was computed from, and the networks
\* whose parameters its autograd graph reaches
NoTensor == [G |-> NoState, D |-> NoState, graph |-> {}]

\* tensor.detach(): same value, cut from the graph
Detach(t) == [t EXCEPT !.graph = {}]

\* self.netG(data_input_high, noise)
GForward(G) == [G |-> G, D |-> NoState, graph |-> {"G"}]

\* self.netD(input)
DForward(input, D) == [G |-> input.G, D |-> D, graph |-> {"D"} \cup input.graph]

\* loss.backward(): the loss is accumulated into .grad of every network the
\* graphs of its operands reach
Backward(grad, net, loss, batch, operands) ==
  IF \E t \in operands : net \in t.graph
    THEN grad \cup {[loss |-> loss, batch |-> batch]}
    ELSE grad

\* a test that takes every is_best for truthy
Truthy_Always(b) == b \in {0, 1}

\* `if is_best:` of save_checkpoint
Truthy(b) == b # 0

SelectDevice(avail, cfg) == IF avail /\ cfg THEN "cuda" ELSE "cpu"

\* ---- positions ---------------------------------------------------------------
BatchPcs == {"to_var", "G_zero", "G_fwd", "G_loss", "G_bwd", "G_step",
             "D_zero", "D_real", "D_fake", "D_step", "inc", "record",
             "image", "log"}

SavePcs == {"save_state", "save_open", "save_write"}

TrainPcs == {"train_for", "get_loader", "for_batch", "save_copy"}
              \cup BatchPcs \cup SavePcs

Terminal == {"completed", "interrupted", "failed"}

\* ---- construction (HighToLow.__init__ up to the checkpoint load) -------------
\* fields set by lines 27-78 in a process with ordinal r that drew `seed`
Construct(r, seed, avail, cfg) ==
  [netG |-> Fresh("G", r), netD |-> Fresh("D", r),
   optimG |-> Fresh("optimG", r), optimD |-> Fresh("optimD", r),
   current_epoch |-> 0, current_iteration |-> 0,
   manual_seed |-> seed, rng_seed |-> seed,
   device |-> SelectDevice(avail, cfg)]

\* a checkpoint left by another user: present, but this process may not open it
ForeignCheckpoint ==
  [status |-> "complete", perm |-> FALSE,
   content |-> CheckpointState(0, NumBatches, Fresh("G", 0), Fresh("optimG", 0),
                               Fresh("D", 0), Fresh("optimD", 0), 1)]

AbsentCheckpoint == [status |-> "absent", perm |-> TRUE, content |-> NoCheckpoint]

\* history variables of a process that has just started
HistoryReset ==
  /\ load_file' = "none"
  /\ load_outcome' = "none"
  /\ start_epoch' = -1
  /\ epochs_run' = <<>>
  /\ gSteps' = 0 /\ dSteps' = 0 /\ iterIncs' = 0
  /\ netG_calls' = 0 /\ netD_calls' = 0
  /\ epoch_saves' = 0
  /\ epoch_images' = <<>>
  /\ intr_pc' = "none"
  /\ events' = <<>>

Init ==
  /\ pc = "load"
  /\ run = 1
  /\ is_cuda \in BOOLEAN
  /\ config_cuda \in BOOLEAN
  /\ \E seed \in 1..MaxSeed :
       LET c == Construct(1, seed, is_cuda, config_cuda) IN
         /\ netG = c.netG /\ netD = c.netD
         /\ optimG = c.optimG /\ optimD = c.optimD
         /\ current_epoch = c.current_epoch
         /\ current_iteration = c.current_iteration
         /\ manual_seed = c.manual_seed /\ rng_seed = c.rng_seed
         /\ device = c.device
  /\ data_device = "none"
  /\ ckpt \in {AbsentCheckpoint, ForeignCheckpoint}
  /\ state = NoCheckpoint
  /\ epochs_left = <<>>
  /\ next_it = 0 /\ curr_it = 0
  /\ batchsize = 0
  /\ loader = "none"
  /\ summary_writer = [open |-> FALSE, exported |-> FALSE]
  /\ scalars = <<>>
  /\ images = {}
  /\ log_lines = 0
  /\ load_file = "none"
  /\ load_outcome = "none"
  /\ start_epoch = -1
  /\ epochs_run = <<>>
  /\ gSteps = 0 /\ dSteps = 0 /\ iterIncs = 0
  /\ netG_calls = 0 /\ netD_calls = 0
  /\ epoch_saves = 0
  /\ epoch_images = <<>>
  /\ intr_pc = "none"
  /\ last_saved = NoCheckpoint
  /\ best = AbsentCheckpoint
  /\ is_best = 0
  /\ best_before = AbsentCheckpoint
  /\ gen_lr = NoTensor /\ pred_real = NoTensor /\ pred_fake = NoTensor
  /\ gradG = {} /\ gradD = {}
  /\ prior = {}
  /\ events = <<>>

\* a new process is started after the previous one exited (lines 259-260, 23-79)
Restart ==
  /\ pc \in Terminal
  /\ run < MaxRuns
  /\ pc' = "load"
  /\ run' = run + 1
  /\ \E seed \in 1..MaxSeed :
       LET c == Construct(run + 1, seed, is_cuda, config_cuda) IN
         /\ netG' = c.netG /\ netD' = c.netD
         /\ optimG' = c.optimG /\ optimD' = c.optimD
         /\ current_epoch' = c.current_epoch
         /\ current_iteration' = c.current_iteration
         /\ manual_seed' = c.manual_seed /\ rng_seed' = c.rng_seed
         /\ device' = c.device
  /\ data_device' = "none"
  /\ state' = NoCheckpoint
  /\ epochs_left' = <<>>
  /\ next_it' = 0 /\ curr_it' = 0
  /\ batchsize' = 0
  /\ loader' = "none"
  /\ summary_writer' = [open |-> FALSE, exported |-> FALSE]
  /\ scalars' = <<>>
  /\ log_lines' = 0
  /\ is_best' = 0
  /\ gen_lr' = NoTensor /\ pred_real' = NoTensor /\ pred_fake' = NoTensor
  /\ gradG' = {} /\ gradD' = {}
  /\ prior' = prior \cup {scalars[i] : i \in 1..Len(scalars)}
  /\ HistoryReset
  /\ UNCHANGED <<is_cuda, config_cuda, ckpt, images, last_saved, best,
                 best_before>>

\* ---- load_checkpoint (line 81, lines 86-104) and the summary writer (84) ---
\* fields after the assignments of lines 92-98 from checkpoint c
LoadedFields(c) ==
  [current_epoch |-> c.epoch, current_iteration |-> c.iteration,
   netG |-> c.G_state_dict, optimG |-> c.G_optimizer,
   netD |-> c.D_state_dict, optimD |-> c.D_optimizer,
   manual_seed |-> c.manual_seed]

LoadCheckpoint ==
  /\ pc = "load"
  /\ load_file' = FileCondition(ckpt)
  /\ load_outcome' = LoadOutcome(FileCondition(ckpt))
  /\ CASE load_outcome' = "ok" ->
            LET l == LoadedFields(ckpt.content) IN
              /\ current_epoch' = l.current_epoch
              /\ current_iteration' = l.current_iteration
              /\ netG' = l.netG /\ optimG' = l.optimG
              /\ netD' = l.netD /\ optimD' = l.optimD
              /\ manual_seed' = l.manual_seed
              /\ summary_writer' = [open |-> TRUE, exported |-> FALSE]
              /\ pc' = "run"
       [] load_outcome' = "skip" ->
              /\ UNCHANGED <<current_epoch, current_iteration, netG, optimG,
                             netD, optimD, manual_seed>>
              /\ summary_writer' = [open |-> TRUE, exported |-> FALSE]
              /\ pc' = "run"
       [] OTHER ->
              /\ UNCHANGED <<current_epoch, current_iteration, netG, optimG,
                             netD, optimD, manual_seed, summary_writer>>
              /\ pc' = "failed"
  /\ UNCHANGED <<run, is_cuda, config_cuda, device, data_device, rng_seed, ckpt,
                 state, epochs_left, next_it, curr_it, batchsize, loader,
                 scalars, images, log_lines, start_epoch, epochs_run, gSteps,
                 dSteps, iterIncs, netG_calls, netD_calls, epoch_saves,
                 epoch_images, intr_pc, last_saved, best, is_best, tensorVars,
                 gradVars, prior, events, best_before>>

\* ---- run() and train() (lines 124-138) ------------------------------------------
\* run() enters the try block and train() evaluates its range once
RunStart ==
  /\ pc = "run"
  /\ pc' = "train_for"
  /\ start_epoch' = current_epoch
  /\ epochs_left' = EpochRange(current_epoch, max_epoch)
  /\ UNCHANGED <<processVars, netVars, counterVars, storeVars, outVars,
                 stepVars, callVars, data_device, next_it, curr_it, batchsize,
                 loader, epochs_run, tensorVars, gradVars, events>>

\* the for statement of train(): next epoch, or the loop (and run()) returns
TrainFor ==
  /\ pc = "train_for"
  /\ IF epochs_left = <<>>
       THEN /\ pc' = "completed"
            /\ UNCHANGED <<current_epoch, epochs_left>>
       ELSE /\ current_epoch' = Head(epochs_left)
            /\ epochs_left' = Tail(epochs_left)
            /\ pc' = "get_loader"
  /\ UNCHANGED <<processVars, netVars, current_iteration, storeVars, outVars,
                 stepVars, callVars, data_device, next_it, curr_it, batchsize,
                 loader, start_epoch, epochs_run, tensorVars, gradVars, events>>

\* ---- train_one_epoch (lines 146-242) ---------------------------------------------
\* lines 147-152: the loader is rebuilt and the networks put in training mode
GetLoader ==
  /\ pc = "get_loader"
  /\ loader' = "open"
  /\ next_it' = 0
  /\ epochs_run' = Append(epochs_run, current_epoch)
  /\ epoch_saves' = 0
  /\ epoch_images' = <<>>
  /\ gen_lr' = NoTensor /\ pred_real' = NoTensor /\ pred_fake' = NoTensor
  /\ events' = <<>>
  /\ pc' = "for_batch"
  /\ UNCHANGED <<processVars, netVars, counterVars, ckpt, state, last_saved,
                 best, is_best, best_before, gradVars,
                 summary_writer, scalars, images, log_lines, stepVars, callVars,
                 data_device, epochs_left, curr_it, batchsize, start_epoch>>

\* line 154: enumerate yields the next batch, or the epoch's loop ends and
\* train() goes on to save_checkpoint()
ForBatch ==
  /\ pc = "for_batch"
  /\ IF next_it < NumBatches
       THEN /\ curr_it' = next_it
            /\ next_it' = next_it + 1
            /\ \E n \in 1..MaxBatchSize : batchsize' = n
            /\ netG_calls' = 0 /\ netD_calls' = 0
            /\ events' = <<>>
            /\ pc' = "to_var"
       ELSE /\ pc' = "save_state"
            /\ UNCHANGED <<curr_it, next_it, batchsize, callVars, events>>
  /\ UNCHANGED <<processVars, netVars, counterVars, storeVars, outVars,
                 stepVars, data_device, epochs_left, loader, start_epoch,
                 epochs_run, tensorVars, gradVars>>

\* lines 156-164 with to_var (140-144): .cuda() raises without a CUDA device
ToVar ==
  /\ pc = "to_var"
  /\ IF is_cuda
       THEN /\ data_device' = "cuda"
            /\ pc' = "G_zero"
       ELSE /\ pc' = "failed"
            /\ UNCHANGED data_device
  /\ UNCHANGED <<processVars, netVars, counterVars, storeVars, loopVars,
                 outVars, stepVars, callVars, tensorVars, gradVars, events>>

\* line 170
G_zero ==
  /\ pc = "G_zero"
  /\ gradG' = {}
  /\ events' = Append(events, "G_zero_grad")
  /\ pc' = "G_fwd"
  /\ UNCHANGED <<processVars, netVars, counterVars, storeVars, loopVars,
                 outVars, stepVars, callVars, data_device, tensorVars, gradD>>

\* lines 173-175: the generator's forward call; it raises when the batch and
\* the network are on different devices
G_fwd ==
  /\ pc = "G_fwd"
  /\ IF data_device = device
       THEN /\ netG_calls' = netG_calls + 1
            /\ gen_lr' = GForward(netG)
            /\ events' = Append(events, "G_forward")
            /\ pc' = "G_loss"
       ELSE /\ pc' = "failed"
            /\ UNCHANGED <<netG_calls, gen_lr, events>>
  /\ UNCHANGED <<processVars, netVars, counterVars, storeVars, loopVars,
                 outVars, stepVars, netD_calls, data_device, pred_real,
                 pred_fake, gradVars>>

\* lines 178-189: pixel loss, netD(data_input_high).detach(), netD(gen_lr),
\* adversarial loss, total generator loss
G_loss ==
  /\ pc = "G_loss"
  /\ netD_calls' = netD_calls + 2
  /\ pred_real' = Detach(DForward(NoTensor, netD))
  /\ pred_fake' = DForward(gen_lr, netD)
  /\ pc' = "G_bwd"
  /\ UNCHANGED <<processVars, netVars, counterVars, storeVars, loopVars,
                 outVars, stepVars, netG_calls, data_device, gen_lr, gradVars,
                 events>>

\* line 191: loss_G is built from gen_lr (pixel loss), pred_fake and pred_real
G_bwd ==
  /\ pc = "G_bwd"
  /\ gradG' = Backward(gradG, "G", "loss_G", current_iteration,
                       {gen_lr, pred_fake, pred_real})
  /\ gradD' = Backward(gradD, "D", "loss_G", current_iteration,
                       {gen_lr, pred_fake, pred_real})
  /\ events' = Append(events, "G_backward")
  /\ pc' = "G_step"
  /\ UNCHANGED <<processVars, netVars, counterVars, storeVars, loopVars,
                 outVars, stepVars, callVars, data_device, tensorVars>>

\* line 192
G_step ==
  /\ pc = "G_step"
  /\ netG' = Stepped(netG)
  /\ optimG' = Stepped(optimG)
  /\ gSteps' = gSteps + 1
  /\ events' = Append(events, "G_step")
  /\ pc' = "D_zero"
  /\ UNCHANGED <<processVars, netD, optimD, counterVars, storeVars, loopVars,
                 outVars, dSteps, iterIncs, callVars, data_device, tensorVars,
                 gradVars>>

\* a discriminator phase that keeps the gradients the generator phase left
D_zero_NotCleared ==
  /\ pc = "D_zero"
  /\ events' = Append(events, "D_zero_grad")
  /\ pc' = "D_real"
  /\ UNCHANGED <<processVars, netVars, counterVars, storeVars, loopVars,
                 outVars, stepVars, callVars, data_device, tensorVars,
                 gradVars>>

\* line 198
D_zero ==
  /\ pc = "D_zero"
  /\ gradD' = {}
  /\ events' = Append(events, "D_zero_grad")
  /\ pc' = "D_real"
  /\ UNCHANGED <<processVars, netVars, counterVars, storeVars, loopVars,
                 outVars, stepVars, callVars, data_device, tensorVars, gradG>>

\* a discriminator phase that reuses the generator phase's pred_real
D_real_Reused ==
  /\ pc = "D_real"
  /\ gradG' = Backward(gradG, "G", "loss_D_real", current_iteration,
                       {pred_real, pred_fake})
  /\ gradD' = Backward(gradD, "D", "loss_D_real", current_iteration,
                       {pred_real, pred_fake})
  /\ events' = Append(events, "D_real_backward")
  /\ pc' = "D_fake"
  /\ UNCHANGED <<processVars, netVars, counterVars, storeVars, loopVars,
                 outVars, stepVars, callVars, data_device, tensorVars>>

\* lines 201-204: netD(data_input_high), loss_D_real from the new pred_real
\* and the generator phase's pred_fake, and its backward
D_real ==
  /\ pc = "D_real"
  /\ netD_calls' = netD_calls + 1
  /\ pred_real' = DForward(NoTensor, netD)
  /\ gradG' = Backward(gradG, "G", "loss_D_real", current_iteration,
                       {pred_real', pred_fake})
  /\ gradD' = Backward(gradD, "D", "loss_D_real", current_iteration,
                       {pred_real', pred_fake})
  /\ events' = Append(events, "D_real_backward")
  /\ pc' = "D_fake"
  /\ UNCHANGED <<processVars, netVars, counterVars, storeVars, loopVars,
                 outVars, stepVars, netG_calls, data_device, gen_lr, pred_fake>>

\* a discriminator phase that runs the generator again for its fake batch
D_fake_Regenerated ==
  /\ pc = "D_fake"
  /\ netG_calls' = netG_calls + 1
  /\ netD_calls' = netD_calls + 1
  /\ gen_lr' = GForward(netG)
  /\ pred_fake' = DForward(Detach(gen_lr'), netD)
  /\ gradG' = Backward(gradG, "G", "loss_D_fake", current_iteration,
                       {pred_fake', pred_real})
  /\ gradD' = Backward(gradD, "D", "loss_D_fake", current_iteration,
                       {pred_fake', pred_real})
  /\ events' = Append(events, "D_fake_backward")
  /\ pc' = "D_step"
  /\ UNCHANGED <<processVars, netVars, counterVars, storeVars, loopVars,
                 outVars, stepVars, data_device, pred_real>>

\* lines 206-211: netD(gen_lr.detach()), loss_D_fake from the new pred_fake
\* and pred_real, its backward, loss_D
D_fake ==
  /\ pc = "D_fake"
  /\ netD_calls' = netD_calls + 1
  /\ pred_fake' = DForward(Detach(gen_lr), netD)
  /\ gradG' = Backward(gradG, "G", "loss_D_fake", current_iteration,
                       {pred_fake', pred_real})
  /\ gradD' = Backward(gradD, "D", "loss_D_fake", current_iteration,
                       {pred_fake', pred_real})
  /\ events' = Append(events, "D_fake_backward")
  /\ pc' = "D_step"
  /\ UNCHANGED <<processVars, netVars, counterVars, storeVars, loopVars,
                 outVars, stepVars, netG_calls, data_device, gen_lr, pred_real>>

\* line 213
D_step ==
  /\ pc = "D_step"
  /\ netD' = Stepped(netD)
  /\ optimD' = Stepped(optimD)
  /\ dSteps' = dSteps + 1
  /\ events' = Append(events, "D_step")
  /\ pc' = "inc"
  /\ UNCHANGED <<processVars, netG, optimG, counterVars, storeVars, loopVars,
                 outVars, gSteps, iterIncs, callVars, data_device, tensorVars,
                 gradVars>>

\* line 215
Inc ==
  /\ pc = "inc"
  /\ current_iteration' = current_iteration + 1
  /\ iterIncs' = iterIncs + 1
  /\ events' = Append(events, "increment")
  /\ pc' = "record"
  /\ UNCHANGED <<processVars, netVars, current_epoch, storeVars, loopVars,
                 outVars, gSteps, dSteps, callVars, data_device, tensorVars,
                 gradVars>>

\* add_scalar calls that share one series name
ScalarRecords_SharedName(step) ==
  << <<"epoch/Generator_loss", step>>,
     <<"epoch/Discriminator_loss", step>>,
     <<"epoch/Discriminator_loss", step>> >>

\* the add_scalar calls of lines 217-219, as <<series, step>>
ScalarRecords(step) ==
  << <<"epoch/Generator_loss", step>>,
     <<"epoch/Discriminator_loss_real", step>>,
     <<"epoch/Discriminator_loss_fake", step>> >>

Record ==
  /\ pc = "record"
  /\ scalars' = scalars \o ScalarRecords(current_iteration)
  /\ events' = Append(events, "record")
  /\ pc' = "image"
  /\ UNCHANGED <<processVars, netVars, counterVars, storeVars, loopVars,
                 summary_writer, images, log_lines, epoch_images, stepVars,
                 callVars, data_device, tensorVars, gradVars>>

\* lines 221-222
Image ==
  /\ pc = "image"
  /\ images' = images \cup {ImageName(curr_it, current_epoch)}
  /\ epoch_images' = Append(epoch_images, ImageName(curr_it, current_epoch))
  /\ events' = Append(events, "image")
  /\ pc' = "log"
  /\ UNCHANGED <<processVars, netVars, counterVars, storeVars, loopVars,
                 summary_writer, scalars, log_lines, stepVars, callVars,
                 data_device, tensorVars, gradVars>>

\* lines 228-242
Log ==
  /\ pc = "log"
  /\ log_lines' = log_lines + 1
  /\ events' = Append(events, "log")
  /\ pc' = "for_batch"
  /\ UNCHANGED <<processVars, netVars, counterVars, storeVars, loopVars,
                 summary_writer, scalars, images, epoch_images, stepVars,
                 callVars, data_device, tensorVars, gradVars>>

\* ---- save_checkpoint (lines 106-122), called from train() at line 138 -----------
\* lines 106-115, entered with the argument b for is_best
SaveStateWith(b) ==
  /\ pc = "save_state"
  /\ is_best' = b
  /\ best_before' = best
  /\ state' = CheckpointState(current_epoch, current_iteration, netG, optimG,
                              netD, optimD, manual_seed)
  /\ pc' = "save_open"
  /\ UNCHANGED <<processVars, netVars, counterVars, ckpt, last_saved,
                 epoch_saves, best, loopVars, outVars, stepVars, callVars,
                 data_device, tensorVars, gradVars, events>>

\* the call of line 138: self.save_checkpoint(), is_best defaults to 0
SaveState == SaveStateWith(0)

\* a call of save_checkpoint that passes is_best = 1
SaveStateBest == SaveStateWith(1)

\* line 118, first half: torch.save opens the path for writing, which truncates
\* the artifact in place; without permission the open raises
SaveOpen ==
  /\ pc = "save_open"
  /\ IF ckpt.perm
       THEN /\ ckpt' = [status |-> "partial", perm |-> TRUE,
                        content |-> NoCheckpoint]
            /\ pc' = "save_write"
       ELSE /\ pc' = "failed"
            /\ UNCHANGED ckpt
  /\ UNCHANGED <<processVars, netVars, counterVars, state, last_saved,
                 epoch_saves, best, is_best, best_before, loopVars, outVars,
                 stepVars, callVars, data_device, tensorVars, gradVars, events>>

\* line 118, second half: the dictionary is written and the file closed;
\* line 120: the copy follows only for a truthy is_best
SaveWrite ==
  /\ pc = "save_write"
  /\ ckpt' = [status |-> "complete", perm |-> TRUE, content |-> state]
  /\ last_saved' = [epoch |-> current_epoch, iteration |-> current_iteration,
                    G_state_dict |-> netG, G_optimizer |-> optimG,
                    D_state_dict |-> netD, D_optimizer |-> optimD,
                    manual_seed |-> manual_seed]
  /\ epoch_saves' = epoch_saves + 1
  /\ pc' = IF Truthy(is_best) THEN "save_copy" ELSE "train_for"
  /\ UNCHANGED <<processVars, netVars, counterVars, state, best, is_best,
                 best_before, loopVars, outVars, stepVars, callVars,
                 data_device, tensorVars, gradVars, events>>

\* lines 121-122: shutil.copyfile of the artifact just written
SaveCopy ==
  /\ pc = "save_copy"
  /\ best' = ckpt
  /\ pc' = "train_for"
  /\ UNCHANGED <<processVars, netVars, counterVars, ckpt, state, last_saved,
                 epoch_saves, is_best, best_before, loopVars, outVars,
                 stepVars, callVars, data_device, tensorVars, gradVars, events>>

\* ---- KeyboardInterrupt (lines 131-132) ----------------------------------------------
\* the interrupt is raised between any two steps of train(); run() catches it,
\* logs and returns
Interrupt ==
  /\ pc \in TrainPcs
  /\ intr_pc' = pc
  /\ pc' = "interrupted"
  /\ UNCHANGED <<run, is_cuda, config_cuda, device, manual_seed, rng_seed,
                 load_file, load_outcome, prior, netVars, counterVars,
                 storeVars, loopVars, outVars, stepVars, callVars, data_device,
                 tensorVars, gradVars, events>>

\* ---- finalize (lines 247-256), invoked by a caller after run() returned ----------
\* line 252
Finalize ==
  /\ pc \in {"completed", "interrupted"}
  /\ pc' = "fin_save"
  /\ UNCHANGED <<processVars, netVars, counterVars, storeVars, loopVars,
                 outVars, stepVars, callVars, data_device, tensorVars,
                 gradVars, events>>

\* line 253: self.save_checkpoint(); the open raises without permission
FinalizeSave ==
  /\ pc = "fin_save"
  /\ is_best' = 0
  /\ best_before' = best
  /\ state' = CheckpointState(current_epoch, current_iteration, netG, optimG,
                              netD, optimD, manual_seed)
  /\ IF ckpt.perm
       THEN /\ ckpt' = [status |-> "complete", perm |-> TRUE, content |-> state']
            /\ last_saved' = [epoch |-> current_epoch,
                              iteration |-> current_iteration,
                              G_state_dict |-> netG, G_optimizer |-> optimG,
                              D_state_dict |-> netD, D_optimizer |-> optimD,
                              manual_seed |-> manual_seed]
            /\ pc' = "fin_export"
       ELSE /\ pc' = "fin_failed"
            /\ UNCHANGED <<ckpt, last_saved>>
  /\ UNCHANGED <<processVars, netVars, counterVars, epoch_saves, best,
                 loopVars, outVars, stepVars, callVars, data_device,
                 tensorVars, gradVars, events>>

\* line 254: export_scalars_to_json writes a file, which succeeds or raises
FinalizeExport ==
  /\ pc = "fin_export"
  /\ \E written \in BOOLEAN :
       IF written
         THEN /\ summary_writer' = [summary_writer EXCEPT !.exported = TRUE]
              /\ pc' = "fin_close"
         ELSE /\ pc' = "fin_failed"
              /\ UNCHANGED summary_writer
  /\ UNCHANGED <<processVars, netVars, counterVars, storeVars, loopVars,
                 scalars, images, log_lines, epoch_images, stepVars, callVars,
                 data_device, tensorVars, gradVars, events>>

\* line 255
FinalizeClose ==
  /\ pc = "fin_close"
  /\ summary_writer' = [summary_writer EXCEPT !.open = FALSE]
  /\ pc' = "fin_loader"
  /\ UNCHANGED <<processVars, netVars, counterVars, storeVars, loopVars,
                 scalars, images, log_lines, epoch_images, stepVars, callVars,
                 data_device, tensorVars, gradVars, events>>

\* line 256: no statement of the class assigns self.dataloader (the loader of
\* the epoch loop is the local test_loader), so the attribute lookup raises
FinalizeLoader ==
  /\ pc = "fin_loader"
  /\ pc' = "fin_failed"
  /\ UNCHANGED <<processVars, netVars, counterVars, storeVars, loopVars,
                 outVars, stepVars, callVars, data_device, tensorVars,
                 gradVars, events>>

\* positions at which a finalize() call has ended
FinalizeEnded == {"finalized", "fin_failed"}

Next ==
  \/ Restart
  \/ LoadCheckpoint
  \/ RunStart
  \/ TrainFor
  \/ GetLoader
  \/ ForBatch
  \/ ToVar
  \/ G_zero
  \/ G_fwd
  \/ G_loss
  \/ G_bwd
  \/ G_step
  \/ D_zero
  \/ D_real
  \/ D_fake
  \/ D_step
  \/ Inc
  \/ Record
  \/ Image
  \/ Log
  \/ SaveState
  \/ SaveOpen
  \/ SaveWrite
  \/ Interrupt

Spec == Init /\ [][Next]_vars

\* the program with a caller that invokes finalize() after run()
NextFinalize ==
  \/ Next
  \/ Finalize
  \/ FinalizeSave
  \/ FinalizeExport
  \/ FinalizeClose
  \/ FinalizeLoader

SpecFinalize == Init /\ [][NextFinalize]_vars

\* the program with save_checkpoint called with either value of is_best
NextSave ==
  \/ Next
  \/ SaveStateBest
  \/ SaveCopy

SpecSave == Init /\ [][NextSave]_vars

\* ---- properties ------------------------------------------------------------------
\* what finalize() (lines 247-256) would leave behind: the live counters on
\* storage, the scalars exported, the writer closed, the loader released
Finalized ==
  /\ ckpt.status = "complete"
  /\ ckpt.content.epoch = current_epoch
  /\ ckpt.content.iteration = current_iteration
  /\ summary_writer.exported
  /\ ~summary_writer.open
  /\ loader = "released"

\* C1: every way the run ends (all epochs completed, interrupted, failed with
\* another exception) is followed by finalization: final checkpoint save,
\* metrics export, reporter close and data-loader release.
C1_FinalizationOnEveryExit == pc \in Terminal => Finalized

\* C2: an interrupt arriving while the batches of epoch 2 are processed ends
\* with a final checkpoint whose epoch is 2 and whose iteration is the number
\* of fully completed batches, metrics exported and resources released.
C2_InterruptInEpoch2Checkpointed ==
  (pc = "interrupted" /\ intr_pc \in BatchPcs /\ current_epoch = 2) =>
    /\ ckpt.status = "complete"
    /\ ckpt.content.epoch = 2
    /\ ckpt.content.iteration = current_iteration
    /\ summary_writer.exported
    /\ ~summary_writer.open
    /\ loader = "released"

\* C3: train() entered with current_epoch = E runs the epochs E, E+1, ...,
\* max_epoch-1 in that order; the checkpoint written at the end of an epoch
\* stores that epoch, and a run resumed from it starts at that same epoch, so
\* the completed epoch is run again.
C3_ResumeRerunsEpoch ==
  /\ \A i \in 1..Len(epochs_run) : epochs_run[i] = start_epoch + i - 1
  /\ pc = "completed" =>
       Len(epochs_run) = (IF start_epoch < max_epoch
                            THEN max_epoch - start_epoch ELSE 0)
  /\ (pc = "train_for" /\ epochs_run # <<>>) =>
       /\ ckpt.status = "complete"
       /\ ckpt.content.epoch = epochs_run[Len(epochs_run)]
  /\ (load_outcome = "ok" /\ Len(epochs_run) = 1
        /\ pc \in (BatchPcs \cup {"for_batch"})) =>
       /\ start_epoch = last_saved.epoch
       /\ epochs_run[1] = last_saved.epoch
       /\ current_epoch = last_saved.epoch

C3_Witness ==
  /\ run = 2
  /\ load_outcome = "ok"
  /\ last_saved.epoch = 1
  /\ last_saved.iteration = 2 * NumBatches
  /\ epochs_run = <<1>>
  /\ pc = "log"

\* C4: an interrupt never stops the loop in the middle of a batch update: when
\* run() returns after an interrupt, generator steps, discriminator steps and
\* iteration increments are equal in number and the records and log line of
\* the last counted batch have been emitted.
C4_InterruptNotMidBatch ==
  pc = "interrupted" =>
    /\ gSteps = dSteps
    /\ dSteps = iterIncs
    /\ Len(scalars) = 3 * iterIncs
    /\ log_lines = iterIncs

\* C5: an interrupt never leaves the artifact under the checkpoint label
\* partially written: it is absent or a complete checkpoint.
C5_InterruptKeepsCheckpointWhole ==
  pc = "interrupted" => ckpt.status \in {"absent", "complete"}

\* C6: save_checkpoint followed by load_checkpoint of the same file sets
\* current_epoch, current_iteration and manual_seed to the values they had
\* when saved and restores the four network and optimizer states saved.
C6_CheckpointRoundTrip ==
  (pc = "run" /\ load_outcome = "ok") =>
    /\ current_epoch = last_saved.epoch
    /\ current_iteration = last_saved.iteration
    /\ manual_seed = last_saved.manual_seed
    /\ netG = last_saved.G_state_dict
    /\ optimG = last_saved.G_optimizer
    /\ netD = last_saved.D_state_dict
    /\ optimD = last_saved.D_optimizer

C6_Witness ==
  /\ pc = "run"
  /\ load_outcome = "ok"
  /\ current_epoch = 1
  /\ current_iteration = 2 * NumBatches
  /\ netG.steps = 2 * NumBatches
  /\ netG.init = 1
  /\ manual_seed # rng_seed

\* C7: with no checkpoint file at start-up load_checkpoint raises no error
\* and leaves the counters at 0 and the networks, optimizers and seed as
\* constructed, so training starts at epoch 0.
C7_MissingCheckpointStartsFresh ==
  load_file = "absent" =>
    /\ load_outcome = "skip"
    /\ pc = "run" =>
         /\ current_epoch = 0
         /\ current_iteration = 0
         /\ netG = [kind |-> "G", init |-> run, steps |-> 0]
         /\ optimG = [kind |-> "optimG", init |-> run, steps |-> 0]
         /\ netD = [kind |-> "D", init |-> run, steps |-> 0]
         /\ optimD = [kind |-> "optimD", init |-> run, steps |-> 0]
         /\ manual_seed = rng_seed
    /\ start_epoch \in {-1, 0}
    /\ epochs_run # <<>> => epochs_run[1] = 0

C7_Witness ==
  /\ load_file = "absent"
  /\ load_outcome = "skip"
  /\ epochs_run = <<0>>
  /\ pc = "for_batch"

\* C8: a checkpoint load failure other than a missing file (corrupt file,
\* permission denied) is fatal and is never treated as "no checkpoint".
C8_OtherLoadFailuresFatal ==
  load_file \in {"denied", "partial"} =>
    /\ load_outcome = "fatal"
    /\ pc = "failed"

\* positions of a batch after both optimizer steps
StepDonePcs == {"inc", "record", "image", "log"}

\* C9 as stated: for every batch size N >= 1 one training step calls the
\* generator once and the discriminator exactly 3 times.
C9_ThreeDiscriminatorCalls ==
  (pc \in StepDonePcs /\ batchsize >= 1) =>
    /\ netG_calls = 1
    /\ netD_calls = 3

\* C9 amended: for every batch size N >= 1 one training step calls the
\* generator once and the discriminator exactly 4 times.
C9_FourDiscriminatorCalls ==
  (pc \in StepDonePcs /\ batchsize >= 1) =>
    /\ netG_calls = 1
    /\ netD_calls = 4

C9_Witness ==
  /\ pc = "inc"
  /\ batchsize = 1
  /\ dSteps = 1
  /\ netD_calls = 4

\* C10: in an epoch of B batches no checkpoint is saved between batches,
\* exactly one is saved after the last batch, and exactly B image artifacts
\* are written, one per batch, named by batch index 0..B-1 and the epoch.
C10_EpochArtifacts ==
  /\ pc \in (BatchPcs \cup SavePcs \cup {"for_batch"}) =>
       /\ epoch_saves = 0
       /\ Len(epoch_images) <= NumBatches
       /\ pc \in SavePcs => Len(epoch_images) = NumBatches
  /\ (pc = "train_for" /\ epochs_run # <<>>) =>
       /\ epoch_saves = 1
       /\ epoch_images =
            [i \in 1..NumBatches |-> [batch |-> i - 1, epoch |-> current_epoch]]
       /\ \A i \in 0..(NumBatches - 1) :
            [batch |-> i, epoch |-> current_epoch] \in images

C10_Witness ==
  /\ pc = "train_for"
  /\ epochs_run = <<0>>
  /\ epoch_saves = 1
  /\ Len(epoch_images) = NumBatches
  /\ epoch_images[1] = [batch |-> 0, epoch |-> 0]
  /\ epoch_images[2] = [batch |-> 1, epoch |-> 0]

\* C11: after each batch the iteration counter is incremented once and then
\* all six scalar losses are recorded to the metric reporter with step equal
\* to the new iteration value.
C11_SixLossesRecorded ==
  pc = "image" =>
    /\ events[Len(events) - 1] = "increment"
    /\ events[Len(events)] = "record"
    /\ Cardinality({scalars[i][1] : i \in {j \in 1..Len(scalars) :
                      scalars[j][2] = current_iteration}}) = 6

\* C12: each metric is recorded under its own series name, and within a run
\* the steps recorded in any one series are strictly increasing in record
\* order.
C12_SeriesStepsIncrease ==
  /\ \A i, j \in 1..Len(scalars) :
       (i < j /\ scalars[i][1] = scalars[j][1]) => scalars[i][2] < scalars[j][2]
  /\ \A i \in 1..Len(scalars) :
       Cardinality({scalars[j][1] : j \in {k \in 1..Len(scalars) :
                      scalars[k][2] = scalars[i][2]}}) = 3

C12_Witness ==
  /\ pc = "log"
  /\ current_epoch = 1
  /\ Len(scalars) = 3 * (NumBatches + 1)
  /\ scalars[1][2] < scalars[4][2]

\* C13: in finalize() the reporter's close() is executed even when the
\* export, or the checkpoint save before it, raises.
C13_CloseAlwaysRuns == pc \in FinalizeEnded => ~summary_writer.open

\* C14: whenever finalize() is invoked it releases the loader the epoch loop
\* used, after the save, the export and the close, and returns without error.
C14_FinalizeReleasesLoader ==
  pc \in FinalizeEnded =>
    /\ pc = "finalized"
    /\ loader = "released"
    /\ summary_writer.exported
    /\ ~summary_writer.open

\* C15: save_checkpoint changes the best artifact only for a truthy is_best,
\* and then it is an exact copy of the checkpoint just written; for a falsy
\* is_best the best artifact is unchanged while the labelled artifact is
\* overwritten.
C15_BestOnlyWhenIsBest ==
  /\ pc \in {"save_open", "save_write", "save_copy"} => best = best_before
  /\ (pc = "train_for" /\ epoch_saves = 1) =>
       /\ ckpt.status = "complete"
       /\ ckpt.content = [epoch |-> current_epoch,
                          iteration |-> current_iteration,
                          G_state_dict |-> netG, G_optimizer |-> optimG,
                          D_state_dict |-> netD, D_optimizer |-> optimD,
                          manual_seed |-> manual_seed]
       /\ IF is_best # 0 THEN best = ckpt ELSE best = best_before

C15_Witness ==
  /\ pc = "train_for"
  /\ epoch_saves = 1
  /\ is_best = 1
  /\ best = ckpt
  /\ best.status = "complete"
  /\ best_before # best

\* the steps of one batch, in the order of lines 170-242
BatchOrder ==
  <<"G_zero_grad", "G_forward", "G_backward", "G_step", "D_zero_grad",
    "D_real_backward", "D_fake_backward", "D_step", "increment", "record",
    "image", "log">>

\* C16: within every batch the steps occur in the order generator zero_grad,
\* forward, backward, step, discriminator zero_grad, loss_D_real backward,
\* loss_D_fake backward, step, increment, records, image, log; and the
\* discriminator phase reuses the generator output and the pred_fake computed
\* before the generator's optimizer step (the generator is not run again).
C16_BatchStepOrder ==
  /\ Len(events) <= Len(BatchOrder)
  /\ events = SubSeq(BatchOrder, 1, Len(events))
  /\ (pc = "for_batch" /\ next_it > 0) => events = BatchOrder
  /\ pc \in ({"D_zero", "D_real", "D_fake", "D_step"} \cup StepDonePcs) =>
       /\ netG_calls = 1
       /\ gen_lr.G.steps + 1 = netG.steps
       /\ pred_fake.G = gen_lr.G
  /\ pc \in {"D_zero", "D_real", "D_fake"} =>
       /\ "G" \in pred_fake.graph
       /\ pred_fake.D = netD
  /\ pc = "D_step" => pred_fake.graph = {"D"}

C16_Witness ==
  /\ pc = "for_batch"
  /\ next_it = NumBatches
  /\ events = BatchOrder
  /\ netG_calls = 1
  /\ gen_lr.G.steps + 1 = netG.steps

\* C17: each optimizer step consumes gradients of its own phase's losses of
\* the current batch only: what loss_G's backward leaves on the discriminator
\* is cleared before the discriminator step, what loss_D_real's backward
\* leaves on the generator is cleared before the next generator step, and
\* loss_D_fake's backward leaves nothing on the generator.
C17_OwnGradientsOnly ==
  /\ pc = "G_step" =>
       /\ gradG = {[loss |-> "loss_G", batch |-> current_iteration]}
       /\ [loss |-> "loss_G", batch |-> current_iteration] \in gradD
  /\ pc = "D_real" => gradD = {}
  /\ pc = "D_step" =>
       /\ gradD = {[loss |-> "loss_D_real", batch |-> current_iteration],
                   [loss |-> "loss_D_fake", batch |-> current_iteration]}
       /\ [loss |-> "loss_D_real", batch |-> current_iteration] \in gradG
  /\ pc = "G_fwd" => gradG = {}
  /\ \A g \in gradG : g.loss # "loss_D_fake"

C17_Witness ==
  /\ pc = "D_step"
  /\ iterIncs >= 1
  /\ gradD = {[loss |-> "loss_D_real", batch |-> current_iteration],
              [loss |-> "loss_D_fake", batch |-> current_iteration]}
  /\ gradG = {[loss |-> "loss_G", batch |-> current_iteration],
              [loss |-> "loss_D_real", batch |-> current_iteration]}

\* C18: in every configuration to_var places the batch on the device selected
\* at start-up, the one holding the networks, and does not fail.
C18_BatchOnSelectedDevice ==
  /\ pc \in (BatchPcs \ {"to_var"}) => data_device = device
  /\ ~(pc = "failed" /\ loader = "open" /\ events = <<>>)

\* C19: in a run resumed from the last checkpoint of a run that stopped in
\* the middle of an epoch, every step recorded in a series is greater than
\* every step the earlier run recorded in that series.
C19_NoStepRecordedTwice ==
  load_outcome = "ok" =>
    \A i \in 1..Len(scalars) :
      \A r \in prior : r[1] = scalars[i][1] => r[2] < scalars[i][2]

\* C20: the manual_seed stored in a checkpoint is the seed the random
\* generators of the run that wrote it were seeded with, also in resumed runs.
C20_StoredSeedIsRngSeed ==
  (pc = "train_for" /\ epoch_saves = 1) =>
    /\ ckpt.status = "complete"
    /\ ckpt.content.manual_seed = rng_seed

====
